---- MODULE Spec2Model ----
(***************************************************************************)
(* A model of gulpio/fileio.py: the record codec, the GulpChunk object     *)
(* over its data/meta file pair, the GulpDirectory over a storage location *)
(* and the GulpIngestor pipeline.                                          *)
(*                                                                         *)
(* Python values are modelled as follows.                                  *)
(*   bytes            a sequence of byte values                            *)
(*   ImgInfo          the tuple <<loc, pad, length>> (a namedtuple is a    *)
(*                    tuple; json writes it as a list of three numbers)    *)
(*   OrderedDict      a sequence of entries in insertion order             *)
(*   a file path      <<kind, digits>>: "data_<digits>.gulp" or            *)
(*                    "meta_<digits>.gmeta"                                *)
(***************************************************************************)
EXTENDS Naturals, Integers, Sequences, FiniteSets, TLC

VARIABLES
    img_str,     \* codec: the payload offered to _write_frame
    buf,         \* codec: the bytes of the scratch data file
    frame_info,  \* codec: the ImgInfo recorded for the payload, or NoInfo
    decoded,     \* codec: what extract_frame returned, or NoBytes
    cstage,      \* codec: "input" | "written" | "read" | "rejected"
    items_per_chunk, \* ranges: argument of calculate_chunk_slices
    num_items,       \* ranges: argument of calculate_chunk_slices
    slices,          \* ranges: the list calculate_chunk_slices returned
    rstage,          \* ranges: "call" | "returned" | "rejected"
    files,       \* the files of the storage location
    chunk,       \* chunk: the GulpChunk object in use
    scope,       \* chunk: the with-block of chunk.open: [active, flag, exit]
    out,         \* chunk: "ok" or the exception the last call raised
    sessionLog,  \* chunk: the ImgInfos recorded since the last open, in call order
    appended,    \* chunk: per item id, the payloads and metadata appended so far
    nappends,    \* chunk: the number of append calls made
    undisturbed, \* chunk: the first chunk object is still the one in use and
                 \* every with-block on it so far ended without an exception
    dir,         \* directory: the GulpDirectory object, NoDir if there is none
    dstatus,     \* directory: "none", or "ok" or the exception of GulpDirectory()
    alloc,       \* directory: what the last new_chunks call returned
    ingest,      \* ingestion: the run's inputs [adapter, per_chunk, num_workers, next0]
    ipc,         \* ingestion: where GulpIngestor.__call__ stands
    tasks,       \* ingestion: the submitted write_chunk calls, in submission order
    ri,          \* ingestion: the index of the result the main process waits for
    withs,       \* iteration: the flags of the with chunk.open blocks entered, innermost last
    gen,         \* iteration: the generator chunk.iter_all() returned
    lastCall     \* iteration: the last call made on the chunk: [n, op, opened]

codecVars == <<img_str, buf, frame_info, decoded, cstage>>
rangeVars == <<items_per_chunk, num_items, slices, rstage>>
chunkVars == <<chunk, scope, out, sessionLog, appended, nappends, undisturbed>>
dirVars == <<dir, dstatus, alloc>>
ingestVars == <<ingest, ipc, tasks, ri>>
iterVars == <<withs, gen, lastCall>>
vars == <<codecVars, rangeVars, files, chunkVars, dirVars, ingestVars, iterVars>>

----------------------------------------------------------------------------
(* Bounds of the model. *)

\* longest payload offered to the codec
MaxLen == 5
\* largest num_items handed to calculate_chunk_slices
MaxItems == 10
\* largest items_per_chunk handed to calculate_chunk_slices
MaxPerChunk == 4

\* byte values that occur in payloads (0 is the padding byte)
Bytes == {0, 1}
\* write positions of the scratch file the codec is exercised at
BaseOffsets == {0, 4, 6}

----------------------------------------------------------------------------
(* Python helpers. *)

Min(a, b) == IF a <= b THEN a ELSE b
Max(a, b) == IF a >= b THEN a ELSE b

\* s[a:b] of Python for 0 <= a, with b possibly negative or past the end
PySlice(s, a, b) ==
    LET n  == Len(s)
        hi == IF b < 0 THEN Max(n + b, 0) ELSE Min(b, n)
    IN  IF a >= hi THEN <<>> ELSE SubSeq(s, a + 1, hi)

LjustNone(s, width) == s

\* bytes.ljust(width, b'\0')
Ljust(s, width) ==
    IF Len(s) >= width THEN s
    ELSE s \o [k \in 1..(width - Len(s)) |-> 0]

\* all byte strings of length lo..hi
BytesOfLen(lo, hi) == UNION {[1..k -> Bytes] : k \in lo..hi}

----------------------------------------------------------------------------
(* The record codec: GulpChunk._pad_image, the encoding half of            *)
(* GulpChunk._write_frame and read_frames.extract_frame.                   *)

Align == 4

ImgInfoSwapped(loc, pad, length) == <<loc, length, pad>>

ImgInfo(loc, pad, length) == <<loc, pad, length>>
LocOf(info) == info[1]
PadOf(info) == info[2]
LengthOf(info) == info[3]

PadImageNoWrap(number) == Align - (number % Align)

_pad_image(number) == (Align - (number % Align)) % Align

\* fp.seek(loc); fp.read(length): short at the end of the file
ReadAt(content, loc, length) == PySlice(content, loc, loc + length)

\* fp.write(record) at position pos of a file opened 'wb' or 'ab'
WriteAt(content, pos, record) ==
    Ljust(PySlice(content, 0, pos), pos) \o record
        \o PySlice(content, pos + Len(record), Len(content))

extract_frame(content, info) ==
    LET record == ReadAt(content, LocOf(info), LengthOf(info))
    IN  PySlice(record, 0, Len(record) - PadOf(info))

NoInfo == <<>>
NoBytes == <<-1>>

----------------------------------------------------------------------------
(* OrderedDict and dict: a sequence of [k, v] entries in insertion order.  *)

EmptyDict == <<>>
DictKeys(d) == [j \in 1..Len(d) |-> d[j].k]
DictHas(d, key) == \E j \in 1..Len(d) : d[j].k = key
DictIdx(d, key) == CHOOSE j \in 1..Len(d) : d[j].k = key
DictGet(d, key) == d[DictIdx(d, key)].v
\* d[key] = val: in place for a key already present, at the end for a new one
DictSet(d, key, val) ==
    IF DictHas(d, key)
    THEN [d EXCEPT ![DictIdx(d, key)] = [k |-> key, v |-> val]]
    ELSE Append(d, [k |-> key, v |-> val])

----------------------------------------------------------------------------
(* The file system: a function from the paths that exist to their content. *)
(* A data file holds bytes, a meta file the text json_serializer wrote.    *)

DataPath(digits) == <<"data", digits>>
MetaPath(digits) == <<"meta", digits>>
Exists(fs, path) == path \in DOMAIN fs
\* the file system with path (created if absent) holding content
PutFile(fs, path, content) ==
    [q \in (DOMAIN fs) \cup {path} |-> IF q = path THEN content ELSE fs[q]]

\* JSONSerializer.dump: the OrderedDict as a list of
\* <<item id, frame_info list, meta_data list>> in key order
json_dump(thing) ==
    [j \in 1..Len(thing) |-> <<thing[j].k, thing[j].v.frame_info, thing[j].v.meta_data>>]

\* JSONSerializer.load with object_pairs_hook=OrderedDict
json_load(text) ==
    [j \in 1..Len(text) |->
        [k |-> text[j][1], v |-> [frame_info |-> text[j][2], meta_data |-> text[j][3]]]]

----------------------------------------------------------------------------
(* GulpChunk. An object is the record                                      *)
(*   [data_file_path, meta_file_path, meta_dict, img_info, fp]             *)
(* and fp is NoFp (None) or [flag, pos, closed]. Operations that touch the *)
(* file system take and return a record [ch, fs, err]; err is "ok" or the  *)
(* exception the call raised.                                              *)

NoFp == [flag |-> "none", pos |-> 0, closed |-> TRUE]
\* fp.close(): a closed file object has no position any more
ClosedFp(fp) == [flag |-> fp.flag, pos |-> 0, closed |-> TRUE]

_default_factory == [frame_info |-> <<>>, meta_data |-> <<>>]

_get_or_create_dict(fs, meta_file_path) ==
    IF Exists(fs, meta_file_path) THEN json_load(fs[meta_file_path]) ELSE EmptyDict

GulpChunkInit(fs, data_file_path, meta_file_path) ==
    [data_file_path |-> data_file_path,
     meta_file_path |-> meta_file_path,
     meta_dict |-> _get_or_create_dict(fs, meta_file_path),
     img_info |-> EmptyDict,
     fp |-> NoFp]

WriteFlags == {"wb", "ab"}
OpenFlags == {"wb", "rb", "ab"}

\* the body of GulpChunk.open up to its yield
ChunkOpen(ch, fs, flag) ==
    IF flag \notin OpenFlags
    THEN [ch |-> ch, fs |-> fs, err |-> "NotImplementedError"]
    ELSE IF flag = "rb" /\ ~Exists(fs, ch.data_file_path)
    THEN [ch |-> ch, fs |-> fs, err |-> "FileNotFoundError"]
    ELSE LET fs1 == IF flag = "wb" \/ ~Exists(fs, ch.data_file_path)
                    THEN PutFile(fs, ch.data_file_path, <<>>)
                    ELSE fs
             pos == IF flag = "ab" THEN Len(fs1[ch.data_file_path]) ELSE 0
         IN  [ch |-> [ch EXCEPT !.fp = [flag |-> flag, pos |-> pos, closed |-> FALSE]],
              fs |-> fs1, err |-> "ok"]

\* GulpChunk.flush: fp.flush() and the dump of the index
ChunkFlush(ch, fs) ==
    IF ch.fp.closed
    THEN [ch |-> ch, fs |-> fs, err |-> "ValueError"]
    ELSE [ch |-> ch, fs |-> PutFile(fs, ch.meta_file_path, json_dump(ch.meta_dict)),
          err |-> "ok"]

\* the body of GulpChunk.open after its yield, run when the with-block
\* ends without an exception
ChunkOpenExit(ch, fs, flag) ==
    LET fl == IF flag \in WriteFlags THEN ChunkFlush(ch, fs)
              ELSE [ch |-> ch, fs |-> fs, err |-> "ok"]
    IN  IF fl.err # "ok" THEN fl
        ELSE [ch |-> [ch EXCEPT !.fp = ClosedFp(@)], fs |-> fl.fs, err |-> "ok"]

\* the with-block ends with an exception: contextmanager throws it into the
\* generator at the yield, which has no try/finally, so nothing after the
\* yield runs
ChunkOpenRaise(ch, fs, flag) == [ch |-> ch, fs |-> fs, err |-> "raised"]

_append_meta(ch, id_, meta_data) ==
    LET d1 == IF DictHas(ch.meta_dict, id_) THEN ch.meta_dict
              ELSE DictSet(ch.meta_dict, id_, _default_factory)
        e  == DictGet(d1, id_)
    IN  [ch EXCEPT !.meta_dict =
            DictSet(d1, id_, [e EXCEPT !.meta_data = Append(@, meta_data)])]

\* _write_frame from the computation of pad on
WriteRecord(st, id_, image) ==
    LET ch     == st.ch
        loc    == ch.fp.pos
        pad    == _pad_image(Len(image))
        record == Ljust(image, Len(image) + pad)
        info   == ImgInfo(loc, pad, Len(record))
        d1     == IF DictHas(ch.meta_dict, id_) THEN ch.meta_dict
                  ELSE DictSet(ch.meta_dict, id_, _default_factory)
        e      == DictGet(d1, id_)
        d2     == DictSet(d1, id_, [e EXCEPT !.frame_info = Append(@, info)])
        ch2    == [ch EXCEPT !.meta_dict = d2]
    IN  IF ch.fp.flag \notin WriteFlags
        THEN [st EXCEPT !.ch = ch2, !.err = "UnsupportedOperation"]
        ELSE
          LET at == IF ch.fp.flag = "ab" THEN Len(st.fs[ch.data_file_path]) ELSE loc
          IN  [ch  |-> [ch2 EXCEPT !.fp.pos = at + Len(record)],
               fs  |-> PutFile(st.fs, ch.data_file_path,
                               WriteAt(st.fs[ch.data_file_path], at, record)),
               err |-> "ok"]

WriteFrameNoAssert(st, id_, image) ==
    IF st.ch.fp.closed THEN [st EXCEPT !.err = "ValueError"]
    ELSE WriteRecord(st, id_, image)

\* the image as bytes (encode_jpg and tostring are outside the model: a
\* frame is the byte string they produce)
_write_frame(st, id_, image) ==
    IF st.ch.fp.closed THEN [st EXCEPT !.err = "ValueError"]
    ELSE IF ~(Len(image) > 0) THEN [st EXCEPT !.err = "AssertionError"]
    ELSE WriteRecord(st, id_, image)

RECURSIVE _write_frames(_, _, _)
_write_frames(st, id_, frames) ==
    IF frames = <<>> \/ st.err # "ok" THEN st
    ELSE _write_frames(_write_frame(st, id_, Head(frames)), id_, Tail(frames))

\* GulpChunk.append
ChunkAppend(ch, fs, id_, meta_data, frames) ==
    _write_frames([ch |-> _append_meta(ch, id_, meta_data), fs |-> fs, err |-> "ok"],
                  id_, frames)

_copy_meta_data(ch, id_) == DictGet(ch.meta_dict, id_).meta_data[1]

\* the chunk with the item's frame infos cached
_get_or_create_img_info(ch, id_) ==
    IF DictHas(ch.img_info, id_) THEN ch
    ELSE [ch EXCEPT !.img_info = DictSet(@, id_, DictGet(ch.meta_dict, id_).frame_info)]

\* a slice is <<start, stop>> or NoSlice (None)
NoSlice == <<>>

\* GulpChunk.read_frames: [ch, err, frames, meta]
read_frames(ch, fs, id_, slice_) ==
    IF ~DictHas(ch.meta_dict, id_)
    THEN [ch |-> ch, err |-> "TypeError", frames |-> <<>>, meta |-> "none"]
    ELSE IF DictGet(ch.meta_dict, id_).meta_data = <<>>
    THEN [ch |-> _get_or_create_img_info(ch, id_), err |-> "IndexError",
          frames |-> <<>>, meta |-> "none"]
    ELSE
      LET ch1 == _get_or_create_img_info(ch, id_)
          frame_infos == DictGet(ch1.img_info, id_)
          slice_element == IF slice_ = NoSlice THEN <<0, Len(frame_infos)>> ELSE slice_
          chosen == PySlice(frame_infos, slice_element[1], slice_element[2])
      IN  IF ch.fp.closed \/ ch.fp.flag # "rb"
          THEN [ch |-> ch1,
                err |-> IF chosen = <<>> THEN "ok"
                        ELSE IF ch.fp.closed THEN "ValueError"
                        ELSE "UnsupportedOperation",
                frames |-> <<>>, meta |-> _copy_meta_data(ch, id_)]
          ELSE [ch |-> ch1, err |-> "ok",
                frames |-> [j \in 1..Len(chosen) |->
                               extract_frame(fs[ch.data_file_path], chosen[j])],
                meta |-> _copy_meta_data(ch, id_)]

----------------------------------------------------------------------------
(* File names. The digits of a path are the first run of digits of its     *)
(* base name; sorted() orders paths as strings, and since every data path  *)
(* is "data_" + digits + ".gulp" (every meta path "meta_" + digits +       *)
(* ".gmeta") that is the order of the digit strings in which a string      *)
(* comes before its extensions ('.' sorts before every digit).             *)

LexLess(a, b) ==
    \E j \in 1..(Min(Len(a), Len(b)) + 1) :
        /\ \A h \in 1..(j - 1) : a[h] = b[h]
        /\ \/ j > Len(a) /\ j <= Len(b)
           \/ j <= Len(a) /\ j <= Len(b) /\ a[j] < b[j]

\* sorted(paths) for a set of paths of one kind
RECURSIVE Sorted(_)
Sorted(paths) ==
    IF paths = {} THEN <<>>
    ELSE LET first == CHOOSE q \in paths :
                          \A o \in paths \ {q} : LexLess(q[2], o[2])
         IN  <<first>> \o Sorted(paths \ {first})

\* int(digits)
RECURSIVE ParseInt(_)
ParseInt(digits) ==
    IF digits = <<>> THEN 0
    ELSE 10 * ParseInt(SubSeq(digits, 1, Len(digits) - 1)) + digits[Len(digits)]

\* '{}'.format(n)
RECURSIVE FormatInt(_)
FormatInt(n) ==
    IF n < 10 THEN <<n>> ELSE FormatInt(n \div 10) \o <<n % 10>>

SeqMax(ids) == CHOOSE x \in {ids[j] : j \in 1..Len(ids)} :
                   \A j \in 1..Len(ids) : ids[j] <= x

----------------------------------------------------------------------------
(* GulpDirectory. An object is the record                                  *)
(*   [chunk_objs_lookup, chunk_lookup, merged_meta_dict, num_chunks];      *)
(* all_meta_dicts is the list of the meta_dicts of chunk_objs_lookup.      *)

_find_existing_data_paths(fs) == Sorted({q \in DOMAIN fs : q[1] = "data"})
_find_existing_meta_paths(fs) == Sorted({q \in DOMAIN fs : q[1] = "meta"})

_find_ids_from_paths(paths) == [j \in 1..Len(paths) |-> ParseInt(paths[j][2])]

\* [err, paths]: the zip of the data paths and the meta paths
_existing_file_paths(fs) ==
    LET data_paths == _find_existing_data_paths(fs)
        meta_paths == _find_existing_meta_paths(fs)
    IN  IF Len(data_paths) # Len(meta_paths)
        THEN [err |-> "AssertionError: len", paths |-> <<>>]
        ELSE [err |-> "ok",
              paths |-> [j \in 1..Len(data_paths) |-> <<data_paths[j], meta_paths[j]>>]]

ChunkIdsNoCheck(fs) ==
    [err |-> "ok", ids |-> _find_ids_from_paths(_find_existing_data_paths(fs))]

\* [err, ids]
_chunk_ids(fs) ==
    LET data_ids == _find_ids_from_paths(_find_existing_data_paths(fs))
        meta_ids == _find_ids_from_paths(_find_existing_meta_paths(fs))
    IN  IF data_ids # meta_ids
        THEN [err |-> "AssertionError: ids", ids |-> <<>>]
        ELSE [err |-> "ok", ids |-> data_ids]

\* the GulpChunk objects of the generator _chunks, given its path pairs
ChunksOf(fs, paths) == [j \in 1..Len(paths) |-> GulpChunkInit(fs, paths[j][1], paths[j][2])]

\* OrderedDict(zip(keys, values))
RECURSIVE DictOfZip(_, _)
DictOfZip(keys, values) ==
    IF keys = <<>> \/ values = <<>> THEN EmptyDict
    ELSE LET n == Min(Len(keys), Len(values))
         IN  DictSet(DictOfZip(SubSeq(keys, 1, n - 1), SubSeq(values, 1, n - 1)),
                     keys[n], values[n])

\* dict.update(other)
RECURSIVE DictUpdate(_, _)
DictUpdate(d, other) ==
    IF other = <<>> THEN d
    ELSE DictUpdate(DictSet(d, other[1].k, other[1].v), Tail(other))

\* the loop that fills chunk_lookup
RECURSIVE ChunkLookupOf(_)
ChunkLookupOf(objs) ==
    IF objs = <<>> THEN EmptyDict
    ELSE LET last == objs[Len(objs)]
             keys == DictKeys(last.v.meta_dict)
         IN  DictUpdate(ChunkLookupOf(SubSeq(objs, 1, Len(objs) - 1)),
                        [j \in 1..Len(keys) |-> [k |-> keys[j], v |-> last.k]])

RECURSIVE MergeAdjacentOnly(_, _)
MergeAdjacentOnly(merged, dicts) ==
    IF dicts = <<>> THEN [err |-> "ok", merged |-> merged]
    ELSE IF Len(dicts) > 1 /\ \E j \in 1..Len(dicts[2]) : DictHas(dicts[1], dicts[2][j].k)
    THEN [err |-> "AssertionError: Duplicate id", merged |-> merged]
    ELSE MergeAdjacentOnly(DictUpdate(merged, dicts[1]), Tail(dicts))

RECURSIVE MergeFirstMetaOnly(_, _)
MergeFirstMetaOnly(merged, dicts) ==
    IF dicts = <<>> THEN [err |-> "ok", merged |-> merged]
    ELSE IF \E j \in 1..Len(dicts[1]) : DictHas(merged, dicts[1][j].k)
    THEN [err |-> "AssertionError: Duplicate id", merged |-> merged]
    ELSE MergeFirstMetaOnly(
             DictUpdate(merged, [j \in 1..Len(dicts[1]) |->
                                    [k |-> dicts[1][j].k, v |-> dicts[1][j].v.meta_data[1]]]),
             Tail(dicts))

\* the loop that fills merged_meta_dict: [err, merged]
RECURSIVE MergeMetaDicts(_, _)
MergeMetaDicts(merged, dicts) ==
    IF dicts = <<>> THEN [err |-> "ok", merged |-> merged]
    ELSE IF \E j \in 1..Len(dicts[1]) : DictHas(merged, dicts[1][j].k)
    THEN [err |-> "AssertionError: Duplicate id", merged |-> merged]
    ELSE MergeMetaDicts(DictUpdate(merged, dicts[1]), Tail(dicts))

NoDir == [chunk_objs_lookup |-> EmptyDict, chunk_lookup |-> EmptyDict,
          merged_meta_dict |-> EmptyDict, num_chunks |-> 0]

\* GulpDirectory.__init__: [err, dir]; no object exists when err is not "ok"
GulpDirectoryInit(fs) ==
    LET ids   == _chunk_ids(fs)
        paths == _existing_file_paths(fs)
    IN  IF ids.err # "ok" THEN [err |-> ids.err, dir |-> NoDir]
        ELSE IF paths.err # "ok" THEN [err |-> paths.err, dir |-> NoDir]
        ELSE
          LET objs   == DictOfZip(ids.ids, ChunksOf(fs, paths.paths))
              all    == [j \in 1..Len(objs) |-> objs[j].v.meta_dict]
              merged == MergeMetaDicts(EmptyDict, all)
          IN  IF merged.err # "ok" THEN [err |-> merged.err, dir |-> NoDir]
              ELSE [err |-> "ok",
                    dir |-> [chunk_objs_lookup |-> objs,
                             chunk_lookup |-> ChunkLookupOf(objs),
                             merged_meta_dict |-> merged.merged,
                             num_chunks |-> Len(objs)]]

NextChunkIdByCount(fs) ==
    LET existing_chunk_ids == _chunk_ids(fs)
    IN  [err |-> existing_chunk_ids.err, id |-> Len(existing_chunk_ids.ids)]

\* [err, id]
_next_chunk_id(fs) ==
    LET existing_chunk_ids == _chunk_ids(fs)
    IN  IF existing_chunk_ids.err # "ok" THEN [err |-> existing_chunk_ids.err, id |-> 0]
        ELSE IF Len(existing_chunk_ids.ids) > 0
        THEN [err |-> "ok", id |-> SeqMax(existing_chunk_ids.ids) + 1]
        ELSE [err |-> "ok", id |-> 0]

_initialize_filenames(chunk_id) ==
    <<DataPath(FormatInt(chunk_id)), MetaPath(FormatInt(chunk_id))>>

AllocateOverLast(fs, total_new_chunks) ==
    LET next_chunk_id == _next_chunk_id(fs)
    IN  IF next_chunk_id.err # "ok" THEN [err |-> next_chunk_id.err, paths |-> <<>>]
        ELSE [err |-> "ok",
              paths |-> [j \in 1..total_new_chunks |->
                            _initialize_filenames(Max(next_chunk_id.id - 1, 0) + j - 1)]]

\* [err, paths]
_allocate_new_file_paths(fs, total_new_chunks) ==
    LET next_chunk_id == _next_chunk_id(fs)
    IN  IF next_chunk_id.err # "ok" THEN [err |-> next_chunk_id.err, paths |-> <<>>]
        ELSE [err |-> "ok",
              paths |-> [j \in 1..total_new_chunks |->
                            _initialize_filenames(next_chunk_id.id + j - 1)]]

\* GulpDirectory.new_chunks, its generator consumed: [err, chunks]
new_chunks(fs, total_new_chunks) ==
    LET a == _allocate_new_file_paths(fs, total_new_chunks)
    IN  [err |-> a.err, chunks |-> ChunksOf(fs, a.paths)]

\* GulpDirectory.__getitem__ for an element that is an item id:
\* [err, frames, meta]
DirGetItem(gdir, fs, id_) ==
    IF ~DictHas(gdir.chunk_lookup, id_)
    THEN [err |-> "KeyError", frames |-> <<>>, meta |-> "none"]
    ELSE LET gulp_chunk == DictGet(gdir.chunk_objs_lookup, DictGet(gdir.chunk_lookup, id_))
             o == ChunkOpen(gulp_chunk, fs, "rb")
         IN  IF o.err # "ok" THEN [err |-> o.err, frames |-> <<>>, meta |-> "none"]
             ELSE LET r == read_frames(o.ch, o.fs, id_, NoSlice)
                  IN  [err |-> r.err, frames |-> r.frames, meta |-> r.meta]

----------------------------------------------------------------------------
(* calculate_chunk_slices: the slices <<start, stop>> for                  *)
(* i in range(0, num_items, items_per_chunk).                              *)

SlicesFromNoClamp(i, per_chunk, n) ==
    [j \in 1..((n - i) \div per_chunk) |->
        <<i + (j - 1) * per_chunk, i + j * per_chunk>>]

RECURSIVE SlicesFrom(_, _, _)
SlicesFrom(i, per_chunk, n) ==
    IF i >= n THEN <<>>
    ELSE <<(<<i, Min(i + per_chunk, n)>>)>> \o SlicesFrom(i + per_chunk, per_chunk, n)

calculate_chunk_slices(per_chunk, n) ==
    IF ~(per_chunk > 0) \/ ~(n > 0) THEN [err |-> "AssertionError", slices |-> <<>>]
    ELSE [err |-> "ok", slices |-> SlicesFrom(0, per_chunk, n)]

----------------------------------------------------------------------------
(* Values the variables of a part hold while another part is exercised.    *)

NoFs == <<>>
NoChunk == GulpChunkInit(NoFs, DataPath(<<0>>), MetaPath(<<0>>))
NoScope == [active |-> FALSE, flag |-> "none", exit |-> "none"]
NoOut == "ok"

CodecIdle ==
    /\ img_str = <<>> /\ buf = <<>> /\ frame_info = NoInfo
    /\ decoded = NoBytes /\ cstage = "idle"
RangesIdle ==
    /\ items_per_chunk = 0 /\ num_items = 0 /\ slices = <<>> /\ rstage = "idle"
ChunkIdle ==
    /\ chunk = NoChunk /\ scope = NoScope /\ out = NoOut
    /\ sessionLog = <<>> /\ appended = <<>> /\ nappends = 0
    /\ undisturbed = TRUE

NoAlloc == [err |-> "none", count |-> 0, chunks |-> <<>>]
DirIdle == dir = NoDir /\ dstatus = "none" /\ alloc = NoAlloc
NoIngest == [adapter |-> <<>>, per_chunk |-> 0, num_workers |-> 0, next0 |-> 0]
IngestIdle == ingest = NoIngest /\ ipc = "idle" /\ tasks = <<>> /\ ri = 0
NoGen == [state |-> "none", accepted_ids |-> <<>>, shuffle |-> FALSE, ids |-> <<>>,
          yielded |-> <<>>, alone |-> TRUE]
NoCall == [n |-> 0, op |-> "none", opened |-> FALSE]
IterIdle == withs = <<>> /\ gen = NoGen /\ lastCall = NoCall

----------------------------------------------------------------------------
(* SpecCodec: one payload through _write_frame and extract_frame, on a     *)
(* scratch data file that already holds some bytes.                        *)

ScratchData == DataPath(<<0>>)
ScratchMeta == MetaPath(<<0>>)
ScratchId == "x"

\* the scratch chunk, opened 'ab' on a data file holding content
ScratchOpen(content) ==
    ChunkOpen(GulpChunkInit(NoFs, ScratchData, ScratchMeta),
              PutFile(NoFs, ScratchData, content), "ab")

InitCodec ==
    /\ img_str \in BytesOfLen(0, MaxLen)
    /\ buf \in {[k \in 1..b |-> 1] : b \in BaseOffsets}
    /\ frame_info = NoInfo
    /\ decoded = NoBytes
    /\ cstage = "input"
    /\ RangesIdle /\ ChunkIdle /\ DirIdle /\ IngestIdle /\ IterIdle /\ files = NoFs

CodecWrite ==
    /\ cstage = "input"
    /\ LET o  == ScratchOpen(buf)
           st == _write_frame([ch |-> o.ch, fs |-> o.fs, err |-> "ok"], ScratchId, img_str)
       IN  IF st.err = "ok"
           THEN /\ buf' = st.fs[ScratchData]
                /\ frame_info' = DictGet(st.ch.meta_dict, ScratchId).frame_info[1]
                /\ cstage' = "written"
           ELSE /\ cstage' = "rejected"
                /\ UNCHANGED <<buf, frame_info>>
    /\ UNCHANGED <<img_str, decoded, rangeVars, files, chunkVars, dirVars, ingestVars, iterVars>>

CodecRead ==
    /\ cstage = "written"
    /\ decoded' = extract_frame(buf, frame_info)
    /\ cstage' = "read"
    /\ UNCHANGED <<img_str, buf, frame_info, rangeVars, files, chunkVars, dirVars, ingestVars, iterVars>>

NextCodec == CodecWrite \/ CodecRead

SpecCodec == InitCodec /\ [][NextCodec]_vars

----------------------------------------------------------------------------
(* SpecRanges: calculate_chunk_slices on every pair of arguments.          *)

InitRanges ==
    /\ items_per_chunk \in 0..MaxPerChunk
    /\ num_items \in 0..MaxItems
    /\ slices = <<>>
    /\ rstage = "call"
    /\ CodecIdle /\ ChunkIdle /\ DirIdle /\ IngestIdle /\ IterIdle /\ files = NoFs

RangesCall ==
    /\ rstage = "call"
    /\ LET r == calculate_chunk_slices(items_per_chunk, num_items)
       IN  /\ slices' = r.slices
           /\ rstage' = IF r.err = "ok" THEN "returned" ELSE "rejected"
    /\ UNCHANGED <<items_per_chunk, num_items, codecVars, files, chunkVars, dirVars, ingestVars, iterVars>>

NextRanges == RangesCall

SpecRanges == InitRanges /\ [][NextRanges]_vars

----------------------------------------------------------------------------
(* SpecChunk: GulpChunk objects over one data/meta file pair, used through *)
(* with chunk.open(flag): ... blocks that append or read and end normally  *)
(* or with an exception.                                                   *)

\* append calls made on the file pair
MaxAppends == 2

ChunkData == DataPath(<<0>>)
ChunkMeta == MetaPath(<<0>>)
ChunkItemIds == {"a", "b"}
\* the append calls made: <<id_, meta_data, frames>>. The third has no
\* frames, the last a zero-length frame after a good one
AppendCalls ==
    { <<"a", "m1", << <<1, 0>>, <<0, 1, 1, 1>> >> >>,
      <<"a", "m2", << <<1>> >> >>,
      <<"b", "m1", <<>> >>,
      <<"b", "m2", << <<1, 1, 1>>, <<>> >> >> }
ReadIds == ChunkItemIds \cup {"zz"}
ReadSlices == {NoSlice, <<1, 3>>}
\* flags handed to open; the last is not a supported mode
FlagInputs == OpenFlags \cup {"r+"}

NothingAppended == [i \in ChunkItemIds |-> [frames |-> <<>>, metas |-> <<>>]]

InitChunk ==
    /\ files = NoFs
    /\ chunk = GulpChunkInit(NoFs, ChunkData, ChunkMeta)
    /\ scope = NoScope
    /\ out = NoOut
    /\ sessionLog = <<>>
    /\ appended = NothingAppended
    /\ nappends = 0
    /\ undisturbed = TRUE
    /\ CodecIdle /\ RangesIdle /\ DirIdle /\ IngestIdle /\ IterIdle

\* GulpChunk(data_file_path, meta_file_path) over the files as they are
CkConstruct ==
    /\ ~scope.active
    /\ chunk' = GulpChunkInit(files, ChunkData, ChunkMeta)
    /\ scope' = NoScope
    /\ out' = "ok"
    /\ sessionLog' = <<>>
    /\ undisturbed' = FALSE
    /\ UNCHANGED <<files, appended, nappends, codecVars, rangeVars, dirVars, ingestVars, iterVars>>

\* with chunk.open(flag): entering the block
CkOpen(flag) ==
    /\ ~scope.active
    /\ LET r == ChunkOpen(chunk, files, flag)
       IN  /\ chunk' = r.ch
           /\ files' = r.fs
           /\ out' = r.err
           /\ scope' = IF r.err = "ok"
                       THEN [active |-> TRUE, flag |-> flag, exit |-> "none"]
                       ELSE NoScope
    /\ sessionLog' = <<>>
    /\ UNCHANGED <<appended, nappends, undisturbed, codecVars, rangeVars, dirVars, ingestVars, iterVars>>

\* chunk.append(id_, meta_data, frames) inside a block opened for write
CkAppend(id_, meta_data, frames) ==
    /\ scope.active /\ scope.flag \in WriteFlags
    /\ nappends < MaxAppends
    /\ LET r      == ChunkAppend(chunk, files, id_, meta_data, frames)
           before == IF DictHas(chunk.meta_dict, id_)
                     THEN DictGet(chunk.meta_dict, id_).frame_info ELSE <<>>
           after  == DictGet(r.ch.meta_dict, id_).frame_info
           fresh  == SubSeq(after, Len(before) + 1, Len(after))
       IN  /\ chunk' = r.ch
           /\ files' = r.fs
           /\ out' = r.err
           /\ sessionLog' = sessionLog \o fresh
           /\ appended' = [appended EXCEPT
                  ![id_].frames = @ \o SubSeq(frames, 1, Len(fresh)),
                  ![id_].metas = Append(@, meta_data)]
    /\ nappends' = nappends + 1
    /\ UNCHANGED <<scope, undisturbed, codecVars, rangeVars, dirVars, ingestVars, iterVars>>

\* chunk.read_frames(id_, slice_) inside a block opened for read
CkRead(id_, slice_) ==
    /\ scope.active /\ scope.flag = "rb"
    /\ LET r == read_frames(chunk, files, id_, slice_)
       IN  /\ chunk' = r.ch
           /\ out' = r.err
    /\ UNCHANGED <<files, scope, sessionLog, appended, nappends, undisturbed,
                   codecVars, rangeVars, dirVars, ingestVars, iterVars>>

\* the block ends without an exception
CkClose ==
    /\ scope.active
    /\ LET r == ChunkOpenExit(chunk, files, scope.flag)
       IN  /\ chunk' = r.ch
           /\ files' = r.fs
           /\ out' = r.err
    /\ scope' = [scope EXCEPT !.active = FALSE, !.exit = "normal"]
    /\ sessionLog' = <<>>
    /\ UNCHANGED <<appended, nappends, undisturbed, codecVars, rangeVars, dirVars, ingestVars, iterVars>>

\* the block ends with an exception: one a call in it raised and the block
\* did not handle (a failing append), or one the block's own code raised (a
\* failing adapter in ChunkWriter.write_chunk)
CkRaise ==
    /\ scope.active
    /\ LET r == ChunkOpenRaise(chunk, files, scope.flag)
       IN  /\ chunk' = r.ch
           /\ files' = r.fs
           /\ out' = r.err
    /\ scope' = [scope EXCEPT !.active = FALSE, !.exit = "error"]
    /\ sessionLog' = <<>>
    /\ undisturbed' = FALSE
    /\ UNCHANGED <<appended, nappends, codecVars, rangeVars, dirVars, ingestVars, iterVars>>

NextChunk ==
    \/ CkConstruct
    \/ \E flag \in FlagInputs : CkOpen(flag)
    \/ \E call \in AppendCalls : CkAppend(call[1], call[2], call[3])
    \/ \E id_ \in ReadIds, slice_ \in ReadSlices : CkRead(id_, slice_)
    \/ CkClose
    \/ CkRaise

SpecChunk == InitChunk /\ [][NextChunk]_vars

----------------------------------------------------------------------------
(* SpecDir: GulpDirectory over a storage location: construction and        *)
(* new_chunks, with the location as this program left it (chunks 0..m-1)   *)
(* or as found (files missing, indexes sharing item ids, zero-padded       *)
(* names), and with one more chunk appearing from outside.                 *)

\* most chunks of a location this program wrote
MaxSysChunks == 11
\* most chunks asked of new_chunks
MaxNew == 2

\* the index file of a chunk holding these items, without frames
IndexOf(items) == json_dump([j \in 1..Len(items) |->
                      [k |-> items[j],
                       v |-> [frame_info |-> <<>>, meta_data |-> <<"m">>]]])

\* names of the locations as found; the last is the zero-padded name of id 2
FoundNames == {<<0>>, <<1>>, <<0, 2>>}
\* the item ids of an index file as found; choice 0 stands for no index file
IndexChoices == << <<>>, <<"a">>, <<"b">>, <<"a", "b">> >>

FoundLocation(f) ==
    [q \in {DataPath(n) : n \in {x \in FoundNames : f[x].data}}
           \cup {MetaPath(n) : n \in {x \in FoundNames : f[x].meta > 0}} |->
        IF q[1] = "data" THEN <<>> ELSE IndexOf(IndexChoices[f[q[2]].meta])]

FoundLocations ==
    {FoundLocation(f) :
        f \in [FoundNames -> [data : BOOLEAN, meta : 0..Len(IndexChoices)]]}

\* chunks 0..m-1 under the names _initialize_filenames gives; the first
\* holds item "a", the last item "b"
SysLocation(m) ==
    [q \in {DataPath(FormatInt(c)) : c \in 0..(m - 1)}
           \cup {MetaPath(FormatInt(c)) : c \in 0..(m - 1)} |->
        IF q[1] = "data" THEN <<>>
        ELSE IF ParseInt(q[2]) = 0 THEN IndexOf(<<"a">>)
        ELSE IF ParseInt(q[2]) = m - 1 THEN IndexOf(<<"b">>)
        ELSE IndexOf(<<>>)]

SysLocations == {SysLocation(m) : m \in 0..MaxSysChunks}

\* the ids in the names of the files of a kind, and the item ids of an index
IdsOfKind(fs, kind) == {ParseInt(q[2]) : q \in {x \in DOMAIN fs : x[1] = kind}}
ItemsOfIndex(text) == {text[j][1] : j \in 1..Len(text)}
MetaPathsOf(fs) == {q \in DOMAIN fs : q[1] = "meta"}

InitDir ==
    /\ files \in FoundLocations \cup SysLocations
    /\ dir = NoDir
    /\ dstatus = "none"
    /\ alloc = NoAlloc
    /\ CodecIdle /\ RangesIdle /\ ChunkIdle /\ IngestIdle /\ IterIdle

\* GulpDirectory(output_dir)
DirConstruct ==
    /\ LET r == GulpDirectoryInit(files)
       IN  /\ dir' = r.dir
           /\ dstatus' = r.err
    /\ alloc' = NoAlloc
    /\ UNCHANGED <<files, codecVars, rangeVars, chunkVars, ingestVars, iterVars>>

\* list(gulp_directory.new_chunks(count))
DirNewChunks(count) ==
    /\ dstatus = "ok"
    /\ LET r == new_chunks(files, count)
       IN  alloc' = [err |-> r.err, count |-> count, chunks |-> r.chunks]
    /\ UNCHANGED <<files, dir, dstatus, codecVars, rangeVars, chunkVars, ingestVars, iterVars>>

\* another run, finished since the directory was built, has left one more
\* chunk at the location; its index holds item "c"
DirFilesAppear ==
    /\ dstatus = "ok"
    /\ \A q \in MetaPathsOf(files) : "c" \notin ItemsOfIndex(files[q])
    /\ LET a == _allocate_new_file_paths(files, 1)
       IN  /\ a.err = "ok"
           /\ files' = PutFile(PutFile(files, a.paths[1][1], <<>>),
                               a.paths[1][2], IndexOf(<<"c">>))
    /\ UNCHANGED <<dir, dstatus, alloc, codecVars, rangeVars, chunkVars, ingestVars, iterVars>>

NextDir ==
    \/ DirConstruct
    \/ \E count \in 0..MaxNew : DirNewChunks(count)
    \/ DirFilesAppear

SpecDir == InitDir /\ [][NextDir]_vars

----------------------------------------------------------------------------
(* SpecIngest: one GulpIngestor.__call__: the slices, the directory, the   *)
(* new chunks, and write_chunk calls run by num_workers pool processes in  *)
(* any interleaving, while the main process collects the results in order. *)
(* A task is [ch, slice, st, next]: the worker's copy of the chunk, its    *)
(* slice, "pending" | "running" | "done" | "failed" | "cancelled", and the *)
(* adapter position iter_data yields next.                                 *)

\* most items of an adapter
MaxAdapter == 3
\* largest videos_per_chunk of a run
MaxVideosPerChunk == 2
\* largest num_workers of a run
MaxWorkers == 2
\* most chunks at the location before the run
MaxExisting == 1

ItemIdOf == <<"v1", "v2", "v3", "v4", "v5">>
MetaOf == <<"m1", "m2", "m3", "m4", "m5">>
\* what the adapter does at a position: yield an item with two frames, yield
\* an item without frames, raise, yield an item whose second frame is empty
ItemKinds == {"frames", "noframes", "raises", "emptyframe"}

AdapterItem(kind, i) ==
    [id |-> ItemIdOf[i], meta |-> MetaOf[i], raises |-> (kind = "raises"),
     frames |-> IF kind = "frames" THEN << <<i>>, <<i, 0, i, 1>> >>
                ELSE IF kind = "emptyframe" THEN << <<i>>, <<>> >>
                ELSE <<>>]

Adapters ==
    UNION {{[i \in 1..n |-> AdapterItem(kinds[i], i)] : kinds \in [1..n -> ItemKinds]} :
              n \in 0..MaxAdapter}

WriteChunkItemAlways(ch, fs, video) ==
    IF video.raises THEN [ch |-> ch, fs |-> fs, err |-> "AdapterError"]
    ELSE ChunkAppend(ch, fs, video.id, video.meta, video.frames)

\* ChunkWriter.write_chunk: one turn of its loop, for the item the adapter
\* yields (or fails to yield)
WriteChunkItem(ch, fs, video) ==
    IF video.raises THEN [ch |-> ch, fs |-> fs, err |-> "AdapterError"]
    ELSE IF Len(video.frames) > 0
    THEN ChunkAppend(ch, fs, video.id, video.meta, video.frames)
    ELSE [ch |-> ch, fs |-> fs, err |-> "ok"]

MapCallsShifted(chunks, chunk_slices) ==
    [j \in 1..Len(chunk_slices) |->
        [ch |-> chunks[(j % Len(chunks)) + 1],
         slice |-> chunk_slices[j],
         st |-> "pending",
         next |-> chunk_slices[j][1]]]

\* executor.map(chunk_writer.write_chunk, new_chunks, chunk_slices): the
\* j-th call gets the j-th chunk and the j-th slice
MapCalls(chunks, chunk_slices) ==
    [j \in 1..Min(Len(chunks), Len(chunk_slices)) |->
        [ch |-> chunks[j],
         slice |-> chunk_slices[j],
         st |-> "pending",
         next |-> chunk_slices[j][1]]]

InitIngest ==
    /\ \E m \in 0..MaxExisting :
          /\ files = SysLocation(m)
          /\ \E a \in Adapters, c \in 1..MaxVideosPerChunk, w \in 1..MaxWorkers :
                ingest = [adapter |-> a, per_chunk |-> c, num_workers |-> w, next0 |-> m]
    /\ ipc = "call"
    /\ tasks = <<>>
    /\ ri = 0
    /\ CodecIdle /\ RangesIdle /\ ChunkIdle /\ DirIdle /\ IterIdle

\* GulpIngestor.__call__ up to executor.map, which submits every call
IngestStart ==
    /\ ipc = "call"
    /\ LET chunk_slices == calculate_chunk_slices(ingest.per_chunk, Len(ingest.adapter))
           gulp_directory == GulpDirectoryInit(files)
           chunks == new_chunks(files, Len(chunk_slices.slices))
       IN  IF chunk_slices.err # "ok" \/ gulp_directory.err # "ok" \/ chunks.err # "ok"
           THEN /\ ipc' = "failed"
                /\ tasks' = <<>>
                /\ ri' = 0
           ELSE /\ ipc' = "collect"
                /\ tasks' = MapCalls(chunks.chunks, chunk_slices.slices)
                /\ ri' = 1
    /\ UNCHANGED <<files, ingest, codecVars, rangeVars, chunkVars, dirVars, iterVars>>

Running == {t \in 1..Len(tasks) : tasks[t].st = "running"}
Pending == {t \in 1..Len(tasks) : tasks[t].st = "pending"}

\* a free pool process takes the oldest pending call and enters
\* with output_chunk.open('wb')
WorkerStart(t) ==
    /\ ipc \in {"collect", "raised"}
    /\ t \in Pending /\ \A o \in Pending : t <= o
    /\ Cardinality(Running) < ingest.num_workers
    /\ LET r == ChunkOpen(tasks[t].ch, files, "wb")
       IN  /\ files' = r.fs
           /\ tasks' = [tasks EXCEPT ![t].ch = r.ch,
                                     ![t].st = IF r.err = "ok" THEN "running" ELSE "failed"]
    /\ UNCHANGED <<ingest, ipc, ri, codecVars, rangeVars, chunkVars, dirVars, iterVars>>

\* the worker handles the next item of its slice; an exception leaves the
\* with-block and ends the call
WorkerItem(t) ==
    /\ t \in Running
    /\ tasks[t].next < tasks[t].slice[2]
    /\ LET r == WriteChunkItem(tasks[t].ch, files, ingest.adapter[tasks[t].next + 1])
           x == IF r.err = "ok" THEN r ELSE ChunkOpenRaise(r.ch, r.fs, "wb")
       IN  /\ files' = x.fs
           /\ tasks' = [tasks EXCEPT ![t].ch = x.ch,
                                     ![t].st = IF r.err = "ok" THEN "running" ELSE "failed",
                                     ![t].next = @ + 1]
    /\ UNCHANGED <<ingest, ipc, ri, codecVars, rangeVars, chunkVars, dirVars, iterVars>>

\* the slice is exhausted: the with-block ends normally
WorkerFinish(t) ==
    /\ t \in Running
    /\ tasks[t].next >= tasks[t].slice[2]
    /\ LET r == ChunkOpenExit(tasks[t].ch, files, "wb")
       IN  /\ files' = r.fs
           /\ tasks' = [tasks EXCEPT ![t].ch = r.ch,
                                     ![t].st = IF r.err = "ok" THEN "done" ELSE "failed"]
    /\ UNCHANGED <<ingest, ipc, ri, codecVars, rangeVars, chunkVars, dirVars, iterVars>>

\* for r in result: the next result is there
MainCollect ==
    /\ ipc = "collect"
    /\ ri <= Len(tasks)
    /\ tasks[ri].st = "done"
    /\ ri' = ri + 1
    /\ UNCHANGED <<files, ingest, ipc, tasks, codecVars, rangeVars, chunkVars, dirVars, iterVars>>

\* for r in result: the next result is an exception, which is raised; the
\* result iterator cancels the calls of cancelled that no process has been
\* handed yet
MainRaise(cancelled) ==
    /\ ipc = "collect"
    /\ ri <= Len(tasks)
    /\ tasks[ri].st = "failed"
    /\ cancelled \subseteq Pending
    /\ tasks' = [t \in 1..Len(tasks) |->
                    IF t \in cancelled THEN [tasks[t] EXCEPT !.st = "cancelled"]
                    ELSE tasks[t]]
    /\ ipc' = "raised"
    /\ UNCHANGED <<files, ingest, ri, codecVars, rangeVars, chunkVars, dirVars, iterVars>>

MainReturnNoWait ==
    /\ \/ ipc = "collect" /\ ri > Len(tasks) /\ ipc' = "returned"
       \/ ipc = "raised" /\ ipc' = "failed"
    /\ UNCHANGED <<files, ingest, tasks, ri, codecVars, rangeVars, chunkVars, dirVars, iterVars>>

\* the with ProcessPoolExecutor block ends: shutdown(wait=True) returns once
\* no call is running or pending, and __call__ returns or raises
MainReturn ==
    /\ Running = {} /\ Pending = {}
    /\ \/ ipc = "collect" /\ ri > Len(tasks) /\ ipc' = "returned"
       \/ ipc = "raised" /\ ipc' = "failed"
    /\ UNCHANGED <<files, ingest, tasks, ri, codecVars, rangeVars, chunkVars, dirVars, iterVars>>

NextIngest ==
    \/ IngestStart
    \/ \E t \in 1..Len(tasks) : WorkerStart(t)
    \/ \E t \in 1..Len(tasks) : WorkerItem(t)
    \/ \E t \in 1..Len(tasks) : WorkerFinish(t)
    \/ MainCollect
    \/ \E cancelled \in SUBSET (1..Len(tasks)) : MainRaise(cancelled)
    \/ MainReturn

SpecIngest == InitIngest /\ [][NextIngest]_vars

----------------------------------------------------------------------------
(* SpecIter: one GulpChunk object over a file pair written earlier, used   *)
(* through nested with chunk.open(flag) blocks and through the generator   *)
(* chunk.iter_all() returns, which a consumer drives with next() and may   *)
(* abandon. lastCall numbers the calls made on the object; out is "ok" or  *)
(* the exception of the last call.                                         *)

\* calls made on the chunk object
MaxCalls == 5
\* with-blocks entered at one time
MaxNest == 2

\* the chunk files after with chunk.open('wb'): chunk.append(*c) for c in calls
RECURSIVE AppendAll(_, _)
AppendAll(st, calls) ==
    IF calls = <<>> \/ st.err # "ok" THEN st
    ELSE AppendAll(ChunkAppend(st.ch, st.fs, calls[1][1], calls[1][2], calls[1][3]),
                   Tail(calls))

WrittenFiles(calls) ==
    LET o == ChunkOpen(GulpChunkInit(NoFs, ChunkData, ChunkMeta), NoFs, "wb")
        a == AppendAll(o, calls)
    IN  ChunkOpenExit(a.ch, a.fs, "wb").fs

\* what was appended to the chunks iterated: nothing, one item, two items,
\* and an item without frames before one with frames
IterContents ==
    { <<>>,
      << <<"a", "m1", << <<1, 0>>, <<0, 1, 1, 1>> >> >> >>,
      << <<"a", "m1", << <<1, 0>> >> >>, <<"b", "m2", << <<1, 1, 1>> >> >> >>,
      << <<"b", "m1", <<>> >>, <<"a", "m2", << <<1>> >> >> >> }

\* accepted_ids: None, or a list
AcceptedInputs ==
    { [given |-> FALSE, ids |-> <<>>],
      [given |-> TRUE, ids |-> <<"a">>],
      [given |-> TRUE, ids |-> <<"zz", "b">>] }

\* the orders np.random.shuffle can leave a list in
ShuffledOrders(ids) ==
    {[j \in 1..Len(ids) |-> ids[f[j]]] :
        f \in {g \in [1..Len(ids) -> 1..Len(ids)] :
                  \A x, y \in 1..Len(ids) : g[x] = g[y] => x = y}}

\* iter_all up to its with statement: the lists ids can be
IterIds(ch, accepted_ids, shuffle) ==
    LET keys == DictKeys(ch.meta_dict)
        ids  == IF accepted_ids.given
                THEN SelectSeq(keys, LAMBDA id_ :
                         \E j \in 1..Len(accepted_ids.ids) : accepted_ids.ids[j] = id_)
                ELSE keys
    IN  IF shuffle THEN ShuffledOrders(ids) ELSE {ids}

\* the for loop of iter_all, resumed with ids left to visit, up to its
\* next yield or its end: [ch, gen, err] with gen the fields that change
IterResume(ch, fs, ids) ==
    IF ids = <<>>
    THEN LET x == ChunkOpenExit(ch, fs, "rb")
         IN  [ch |-> x.ch, state |-> "exhausted", ids |-> <<>>, yielded |-> <<>>,
              err |-> IF x.err = "ok" THEN "StopIteration" ELSE x.err]
    ELSE LET r == read_frames(ch, fs, Head(ids), NoSlice)
         IN  IF r.err # "ok"
             THEN [ch |-> ChunkOpenRaise(r.ch, fs, "rb").ch, state |-> "failed",
                   ids |-> <<>>, yielded |-> <<>>, err |-> r.err]
             ELSE [ch |-> r.ch, state |-> "suspended", ids |-> Tail(ids),
                   yielded |-> <<r.frames, r.meta>>, err |-> "ok"]

GenLive == gen.state \in {"created", "suspended"}
Called(op, opened) == [n |-> lastCall.n + 1, op |-> op, opened |-> opened]

InitIter ==
    /\ files \in {WrittenFiles(c) : c \in IterContents} \cup {NoFs}
    /\ chunk = GulpChunkInit(files, ChunkData, ChunkMeta)
    /\ out = "ok"
    /\ scope = NoScope /\ sessionLog = <<>> /\ appended = <<>>
    /\ nappends = 0 /\ undisturbed = TRUE
    /\ IterIdle
    /\ CodecIdle /\ RangesIdle /\ DirIdle /\ IngestIdle

\* with chunk.open(flag): entering the block
ItOpen(flag) ==
    /\ lastCall.n < MaxCalls
    /\ Len(withs) < MaxNest
    /\ LET r == ChunkOpen(chunk, files, flag)
       IN  /\ chunk' = r.ch
           /\ files' = r.fs
           /\ out' = r.err
           /\ withs' = IF r.err = "ok" THEN Append(withs, flag) ELSE withs
    /\ lastCall' = Called("open", TRUE)
    /\ gen' = IF GenLive THEN [gen EXCEPT !.alone = FALSE] ELSE gen
    /\ UNCHANGED <<scope, sessionLog, appended, nappends, undisturbed,
                   codecVars, rangeVars, dirVars, ingestVars>>

\* the innermost with-block ends, without an exception or with one
ItExit(raised) ==
    /\ lastCall.n < MaxCalls
    /\ withs # <<>>
    /\ LET flag == withs[Len(withs)]
           r == IF raised THEN ChunkOpenRaise(chunk, files, flag)
                ELSE ChunkOpenExit(chunk, files, flag)
       IN  /\ chunk' = r.ch
           /\ files' = r.fs
           /\ out' = r.err
    /\ withs' = SubSeq(withs, 1, Len(withs) - 1)
    /\ lastCall' = Called("exit", FALSE)
    /\ gen' = IF GenLive THEN [gen EXCEPT !.alone = FALSE] ELSE gen
    /\ UNCHANGED <<scope, sessionLog, appended, nappends, undisturbed,
                   codecVars, rangeVars, dirVars, ingestVars>>

\* chunk.iter_all(accepted_ids, shuffle): a generator whose body has not
\* started
GenCreate(accepted_ids, shuffle) ==
    /\ lastCall.n < MaxCalls
    /\ ~GenLive
    /\ gen' = [state |-> "created", accepted_ids |-> accepted_ids, shuffle |-> shuffle,
               ids |-> <<>>, yielded |-> <<>>,
               alone |-> (withs = <<>> /\ chunk.fp.closed)]
    /\ lastCall' = Called("iter_all", FALSE)
    /\ out' = "ok"
    /\ UNCHANGED <<files, chunk, withs, scope, sessionLog, appended, nappends,
                   undisturbed, codecVars, rangeVars, dirVars, ingestVars>>

\* next(gen): the body runs to its next yield or to its end
GenNext ==
    /\ lastCall.n < MaxCalls
    /\ GenLive
    /\ IF gen.state = "created"
       THEN \E ids \in IterIds(chunk, gen.accepted_ids, gen.shuffle) :
               LET o == ChunkOpen(chunk, files, "rb")
                   r == IterResume(o.ch, o.fs, ids)
               IN  IF o.err # "ok"
                   THEN /\ chunk' = o.ch
                        /\ out' = o.err
                        /\ gen' = [gen EXCEPT !.state = "failed"]
                   ELSE /\ chunk' = r.ch
                        /\ out' = r.err
                        /\ gen' = [gen EXCEPT !.state = r.state, !.ids = r.ids,
                                              !.yielded = r.yielded]
       ELSE LET r == IterResume(chunk, files, gen.ids)
            IN  /\ chunk' = r.ch
                /\ out' = r.err
                /\ gen' = [gen EXCEPT !.state = r.state, !.ids = r.ids,
                                      !.yielded = r.yielded]
    /\ lastCall' = Called("next", gen.state = "created")
    /\ UNCHANGED <<files, withs, scope, sessionLog, appended, nappends, undisturbed,
                   codecVars, rangeVars, dirVars, ingestVars>>

\* the consumer drops the generator (break out of the for loop, or
\* gen.close()): GeneratorExit is raised at the yield iter_all is suspended
\* at, inside its with-block
GenAbandon ==
    /\ lastCall.n < MaxCalls
    /\ GenLive
    /\ chunk' = IF gen.state = "suspended"
                THEN ChunkOpenRaise(chunk, files, "rb").ch
                ELSE chunk
    /\ gen' = [gen EXCEPT !.state = "closed", !.ids = <<>>, !.yielded = <<>>]
    /\ lastCall' = Called("close", FALSE)
    /\ out' = "ok"
    /\ UNCHANGED <<files, withs, scope, sessionLog, appended, nappends, undisturbed,
                   codecVars, rangeVars, dirVars, ingestVars>>

NextIter ==
    \/ \E flag \in FlagInputs : ItOpen(flag)
    \/ \E raised \in BOOLEAN : ItExit(raised)
    \/ \E a \in AcceptedInputs, shuffle \in BOOLEAN : GenCreate(a, shuffle)
    \/ GenNext
    \/ GenAbandon

SpecIter == InitIter /\ [][NextIter]_vars

----------------------------------------------------------------------------
(* Claims about the record codec and about calculate_chunk_slices.         *)

Zeros(k) == [j \in 1..k |-> 0]

\* C3: for every payload p with len(p) > 0 the codec accepts p, computes
\* padLength = (4 - len(p) mod 4) mod 4, which lies in [0,3]; the record on
\* disk is p followed by padLength zero bytes, of a length that is a multiple
\* of 4; and decoding the record with its locator returns exactly p.
C3_RecordRoundTrip ==
    Len(img_str) > 0 /\ cstage # "input" =>
        /\ cstage \in {"written", "read"}
        /\ LET n      == Len(img_str)
               pad    == PadOf(frame_info)
               record == PySlice(buf, LocOf(frame_info),
                                 LocOf(frame_info) + LengthOf(frame_info))
           IN  /\ pad = (4 - (n % 4)) % 4
               /\ pad \in 0..3
               /\ record = img_str \o Zeros(pad)
               /\ Len(record) = n + pad
               /\ Len(record) % 4 = 0
               /\ cstage = "read" => decoded = img_str

\* C3 witness: a payload of four bytes ending in a zero byte (no padding is
\* added, and the payload's own zero is not stripped) has been read back.
C3_Witness ==
    /\ cstage = "read"
    /\ Len(img_str) = 4
    /\ img_str[4] = 0
    /\ decoded = img_str

\* C7: for all itemsPerChunk = c > 0 and n > 0, calculateRanges(c, n) returns
\* ceil(n/c) half-open ranges that are contiguous and non-overlapping, start
\* at 0, cover exactly [0, n), each of length c except the last, whose length
\* is in [1, c]; n = 10, c = 3 gives [0,3), [3,6), [6,9), [9,10).
C7_RangesPartition ==
    items_per_chunk > 0 /\ num_items > 0 /\ rstage # "call" =>
        /\ rstage = "returned"
        /\ LET c == items_per_chunk
               n == num_items
               k == Len(slices)
               Covered(j) == {x \in 0..(n - 1) : slices[j][1] <= x /\ x < slices[j][2]}
           IN  /\ k = (n + c - 1) \div c
               /\ slices[1][1] = 0
               /\ slices[k][2] = n
               /\ \A j \in 1..(k - 1) :
                     /\ slices[j][2] = slices[j + 1][1]
                     /\ slices[j][2] - slices[j][1] = c
               /\ slices[k][2] - slices[k][1] \in 1..c
               /\ UNION {Covered(j) : j \in 1..k} = 0..(n - 1)
               /\ \A j1, j2 \in 1..k : j1 # j2 => Covered(j1) \cap Covered(j2) = {}
               /\ (c = 3 /\ n = 10) =>
                     slices = << <<0, 3>>, <<3, 6>>, <<6, 9>>, <<9, 10>> >>

\* C7 witness: the call with n = 10, c = 3 has returned four ranges.
C7_Witness ==
    /\ rstage = "returned"
    /\ items_per_chunk = 3 /\ num_items = 10
    /\ Len(slices) = 4

----------------------------------------------------------------------------
(* Claims about GulpChunk.                                                 *)

\* what read(id_, slice_) is to return: the payloads appended so far for
\* id_, cut to the range, and the first metadata appended for id_
ExpectedFrames(id_, slice_) ==
    IF slice_ = NoSlice THEN appended[id_].frames
    ELSE PySlice(appended[id_].frames, slice_[1], slice_[2])

\* C1: opening a chunk is a scoped acquisition: on every exit from the
\* scope, an exit by an error raised inside the scope included, the data-file
\* handle is released and, for a write scope, the in-memory index has been
\* persisted to the index file.
C1_ScopeExitReleases ==
    ~scope.active /\ scope.exit \in {"normal", "error"} =>
        /\ chunk.fp.closed
        /\ scope.flag \in WriteFlags =>
              /\ Exists(files, ChunkMeta)
              /\ json_load(files[ChunkMeta]) = chunk.meta_dict

\* C4: whenever a chunk is open for read, read(itemId, [a,b)) returns
\* exactly the payloads of the frames appended so far for itemId at positions
\* a..b-1, in append order, with the item's first metadata entry; with no
\* range it returns all of the item's frames. This holds on the same chunk
\* object after any earlier sequence of write and read sessions (here: of
\* with-blocks on the first chunk object that all ended without an exception).
C4_ReadReturnsAppended ==
    undisturbed /\ scope.active /\ scope.flag = "rb" =>
        \A id_ \in ChunkItemIds, slice_ \in ReadSlices :
            appended[id_].metas # <<>> =>
                LET r == read_frames(chunk, files, id_, slice_)
                IN  /\ r.err = "ok"
                    /\ r.frames = ExpectedFrames(id_, slice_)
                    /\ r.meta = appended[id_].metas[1]

\* the locators recorded in the open write session are laid end to end and
\* the write cursor stands at the end of the last one
C5_Contiguous ==
    scope.active /\ scope.flag \in WriteFlags =>
        /\ \A j \in 1..Len(sessionLog) : LengthOf(sessionLog[j]) > 0
        /\ \A j \in 1..(Len(sessionLog) - 1) :
              /\ LocOf(sessionLog[j + 1]) = LocOf(sessionLog[j]) + LengthOf(sessionLog[j])
              /\ LocOf(sessionLog[j + 1]) > LocOf(sessionLog[j])
        /\ sessionLog # <<>> =>
              chunk.fp.pos = LocOf(sessionLog[Len(sessionLog)])
                                + LengthOf(sessionLog[Len(sessionLog)])

\* inside a write session the write cursor does not move backward
C5_CursorForward ==
    scope.active /\ scope'.active /\ scope.flag \in WriteFlags =>
        chunk'.fp.pos >= chunk.fp.pos

\* C5: within one chunk write session the offsets recorded in FrameLocators
\* are strictly increasing in the order the frames were appended (across all
\* items and all append calls), and the write cursor never moves backward:
\* each record starts exactly where the previous record ended.
C5_OffsetsIncrease == []C5_Contiguous /\ [][C5_CursorForward]_vars

\* C5 witness: a write session in which two append calls recorded three
\* locators.
C5_Witness ==
    /\ scope.active /\ scope.flag \in WriteFlags
    /\ nappends = 2
    /\ Len(sessionLog) >= 3

----------------------------------------------------------------------------
(* Claims about GulpDirectory.                                             *)

\* some item id is in the index of two different chunks of the location
DupItem(fs) ==
    \E q1, q2 \in MetaPathsOf(fs) :
        q1 # q2 /\ ItemsOfIndex(fs[q1]) \cap ItemsOfIndex(fs[q2]) # {}
\* the ids of the data-file names are the ids of the index-file names
IdSetsEqual(fs) == IdsOfKind(fs, "data") = IdsOfKind(fs, "meta")
\* this step is a GulpDirectory() call with another outcome than the last
Constructed == <<dir, dstatus>>' # <<dir, dstatus>>
SetMax(S) == CHOOSE x \in S : \A y \in S : y <= x

C2_Step ==
    Constructed /\ IdSetsEqual(files) =>
        /\ DupItem(files) =>
              dstatus' = "AssertionError: Duplicate id" /\ dir' = NoDir
        /\ ~DupItem(files) =>
              /\ dstatus' = "ok"
              /\ \A q \in MetaPathsOf(files) : \A i \in ItemsOfIndex(files[q]) :
                    /\ DictHas(dir'.chunk_lookup, i)
                    /\ DictGet(dir'.chunk_lookup, i) = ParseInt(q[2])
              /\ {dir'.chunk_lookup[j].k : j \in 1..Len(dir'.chunk_lookup)}
                    = UNION {ItemsOfIndex(files[q]) : q \in MetaPathsOf(files)}

\* C2: Directory construction fails (DuplicateItemId) whenever some itemId
\* occurs in the index of two or more different chunks of the location, for
\* any number of chunks and any position of the duplicate; when no itemId is
\* shared, construction succeeds and itemToChunk maps every itemId to the one
\* chunk whose index contains it.
C2_DuplicateItemId == [][C2_Step]_vars

\* C2 witness: construction failed on three chunks of which the first and
\* the last in construction order (data_0, data_02, data_1) share item "a".
C2_Witness ==
    /\ dstatus = "AssertionError: Duplicate id"
    /\ IdsOfKind(files, "data") = {0, 1, 2}
    /\ IdSetsEqual(files)
    /\ ItemsOfIndex(files[MetaPath(<<0>>)]) = {"a"}
    /\ ItemsOfIndex(files[MetaPath(<<0, 2>>)]) = {"b"}
    /\ ItemsOfIndex(files[MetaPath(<<1>>)]) = {"a"}

C8_Step ==
    alloc' # alloc /\ alloc'.err = "ok" =>
        LET ids    == IdsOfKind(files, "data") \cup IdsOfKind(files, "meta")
            nextId == IF ids = {} THEN 0 ELSE SetMax(ids) + 1
        IN  /\ Len(alloc'.chunks) = alloc'.count
            /\ \A j \in 1..Len(alloc'.chunks) :
                  LET ch == alloc'.chunks[j]
                  IN  /\ ch.data_file_path[1] = "data"
                      /\ ch.meta_file_path[1] = "meta"
                      /\ ParseInt(ch.data_file_path[2]) = nextId + j - 1
                      /\ ParseInt(ch.meta_file_path[2]) = nextId + j - 1
                      /\ ParseInt(ch.data_file_path[2]) \notin ids
                      /\ ch.data_file_path \notin DOMAIN files
                      /\ ch.meta_file_path \notin DOMAIN files
                      /\ ch.meta_dict = EmptyDict
            /\ files' = files

\* C8: allocateNewChunks(count) returns chunks for exactly the ids
\* nextId .. nextId+count-1, where nextId is (the maximum chunk id present at
\* the location when the call is made) + 1, or 0 if the location holds no
\* chunk; the returned chunks have empty indexes, no returned id equals the
\* id of an existing chunk file, and the call creates no file.
C8_AllocateNewChunks == [][C8_Step]_vars

\* C8 witness: two chunks were allocated at a location holding chunks
\* {0, 1, 2}, with ids 3 and 4.
C8_Witness ==
    /\ alloc.err = "ok" /\ alloc.count = 2
    /\ IdsOfKind(files, "data") = {0, 1, 2}
    /\ ParseInt(alloc.chunks[1].data_file_path[2]) = 3
    /\ ParseInt(alloc.chunks[2].data_file_path[2]) = 4

C9_Step ==
    Constructed =>
        /\ ~IdSetsEqual(files) =>
              dstatus' = "AssertionError: ids" /\ dir' = NoDir
        /\ IdSetsEqual(files) /\ ~DupItem(files) =>
              /\ dstatus' = "ok"
              /\ dir'.num_chunks = Cardinality(IdsOfKind(files, "data"))

\* C9: Directory construction fails (DirectoryCorrupt) whenever the set of
\* chunk ids extracted from the data-file names differs from the set of ids
\* extracted from the index-file names, and in that case no Directory object
\* is produced; when the two id sets are equal (and item ids are unique)
\* construction succeeds.
C9_DirectoryCorrupt == [][C9_Step]_vars

\* C9 witness: construction failed at a location with as many data files as
\* index files but other ids: data ids {0, 1}, index ids {0, 2}.
C9_Witness ==
    /\ dstatus = "AssertionError: ids"
    /\ dir = NoDir
    /\ IdsOfKind(files, "data") = {0, 1}
    /\ IdsOfKind(files, "meta") = {0, 2}

----------------------------------------------------------------------------
(* Claims about an ingestion run.                                          *)

\* the positions (from 0) of the adapter items of a run
Positions == 0..(Len(ingest.adapter) - 1)
\* the chunk id range partitioning gives position i
ChunkIdOfPosition(i) == ingest.next0 + (i \div ingest.per_chunk)
PositionOfId(id_) == CHOOSE i \in Positions : ingest.adapter[i + 1].id = id_
AdapterIds == {ingest.adapter[i + 1].id : i \in Positions}
\* the items a run that succeeds writes: those with frames
WrittenPositions == {i \in Positions : Len(ingest.adapter[i + 1].frames) > 0}
\* does the adapter hold an item no worker gets through
SomeItemFails ==
    \E i \in Positions :
        \/ ingest.adapter[i + 1].raises
        \/ \E f \in 1..Len(ingest.adapter[i + 1].frames) :
              ingest.adapter[i + 1].frames[f] = <<>>

\* what a Directory on the location gives for the item ids of ids
ReadableThrough(gdir, ids) ==
    {<<id_, DirGetItem(gdir, files, id_)>> : id_ \in ids}
\* the same, told from the adapter and the location before the run alone
ExpectedReadable ==
    {<<ingest.adapter[i + 1].id,
       [err |-> "ok", frames |-> ingest.adapter[i + 1].frames,
        meta |-> ingest.adapter[i + 1].meta]>> : i \in WrittenPositions}
    \cup {<<id_, [err |-> "ok", frames |-> <<>>, meta |-> "m"]>> :
             id_ \in UNION {ItemsOfIndex(SysLocation(ingest.next0)[q]) :
                               q \in MetaPathsOf(SysLocation(ingest.next0))}}

\* every item id an index of a chunk of the run holds, in a worker's memory
\* or on disk, is the id of the adapter item of a position of that chunk
C6_Placement ==
    /\ \A t \in 1..Len(tasks) :
          \A j \in 1..Len(tasks[t].ch.meta_dict) :
              /\ tasks[t].ch.meta_dict[j].k \in AdapterIds
              /\ ParseInt(tasks[t].ch.data_file_path[2]) =
                    ChunkIdOfPosition(PositionOfId(tasks[t].ch.meta_dict[j].k))
    /\ \A q \in MetaPathsOf(files) :
          ParseInt(q[2]) >= ingest.next0 =>
              \A id_ \in ItemsOfIndex(files[q]) :
                  /\ id_ \in AdapterIds
                  /\ ParseInt(q[2]) = ChunkIdOfPosition(PositionOfId(id_))

\* C6: for a fixed adapter, items per chunk and location, the result of an
\* ingestion run does not depend on the number of workers or on their
\* interleaving: the adapter item at position i lands in chunk
\* nextId + floor(i / itemsPerChunk), and what a Directory reads afterwards
\* is the same set of (item id -> frames, metadata) for every worker count
\* and every interleaving - after a run that succeeded the items with frames
\* of the adapter, after a run in which a worker failed nothing, because no
\* Directory can be constructed.
C6_RunIndependentOfWorkers ==
    /\ C6_Placement
    /\ ipc = "returned" =>
          /\ ~SomeItemFails
          /\ GulpDirectoryInit(files).err = "ok"
          /\ \A i \in WrittenPositions :
                Exists(files, MetaPath(FormatInt(ChunkIdOfPosition(i))))
                /\ ingest.adapter[i + 1].id \in
                      ItemsOfIndex(files[MetaPath(FormatInt(ChunkIdOfPosition(i)))])
          /\ ReadableThrough(GulpDirectoryInit(files).dir, AdapterIds \cup {"a", "b"})
                = ExpectedReadable
                  \cup {<<id_, [err |-> "KeyError", frames |-> <<>>, meta |-> "none"]>> :
                          id_ \in (AdapterIds \cup {"a", "b"})
                                    \ {e[1] : e \in ExpectedReadable}}
    /\ ipc = "failed" =>
          /\ SomeItemFails \/ Len(ingest.adapter) = 0
          /\ Len(ingest.adapter) = 0 => files = SysLocation(ingest.next0)
          /\ Len(ingest.adapter) > 0 => GulpDirectoryInit(files).err # "ok"

\* a run of two workers on two chunks has returned and wrote three items
C6_Witness ==
    /\ ipc = "returned"
    /\ ingest.num_workers = 2
    /\ ingest.per_chunk = 2
    /\ Len(tasks) = 2
    /\ Cardinality(WrittenPositions) = 3

\* the state part of C10
C10_Returned ==
    /\ ipc \in {"returned", "failed"} => Running = {} /\ Pending = {}
    /\ ipc = "returned" => \A t \in 1..Len(tasks) : tasks[t].st = "done"
    /\ \A t \in 1..Len(tasks) :
          /\ tasks[t].st = "failed" => ipc # "returned"
          /\ tasks[t].st = "done" =>
                /\ Exists(files, tasks[t].ch.data_file_path)
                /\ Exists(files, tasks[t].ch.meta_file_path)
                /\ json_load(files[tasks[t].ch.meta_file_path]) = tasks[t].ch.meta_dict

\* the step part of C10: no step changes the files of a completed chunk
C10_Step ==
    \A t \in 1..Len(tasks) :
        tasks[t].st = "done" =>
            /\ Exists(files', tasks[t].ch.data_file_path)
            /\ Exists(files', tasks[t].ch.meta_file_path)
            /\ files'[tasks[t].ch.data_file_path] = files[tasks[t].ch.data_file_path]
            /\ files'[tasks[t].ch.meta_file_path] = files[tasks[t].ch.meta_file_path]

\* C10: an ingestion run returns, with or without a failure, only after
\* every worker that started has finished; a worker's failure makes the run
\* fail; and the data file and the index file of every chunk a worker
\* completed stay on disk unchanged.
C10_RunWaitsAndKeeps == []C10_Returned /\ [][C10_Step]_vars

\* a run has failed after one worker failed and another completed its chunk
C10_Witness ==
    /\ ipc = "failed"
    /\ \E t \in 1..Len(tasks) : tasks[t].st = "failed"
    /\ \E t \in 1..Len(tasks) :
          tasks[t].st = "done" /\ Len(tasks[t].ch.meta_dict) > 0

\* the adapter item the worker of call t handles next
NextVideo(t) == ingest.adapter[tasks[t].next + 1]
\* call t moves on by one item in this step
HandlesItem(t) ==
    /\ tasks[t].st = "running"
    /\ Len(tasks') = Len(tasks)
    /\ tasks'[t].next = tasks[t].next + 1

C11_Step ==
    \A t \in 1..Len(tasks) :
        HandlesItem(t) /\ ~NextVideo(t).raises =>
            /\ Len(NextVideo(t).frames) = 0 =>
                  /\ tasks'[t].ch = tasks[t].ch
                  /\ ~DictHas(tasks'[t].ch.meta_dict, NextVideo(t).id)
                  /\ ~DictHas(tasks'[t].ch.img_info, NextVideo(t).id)
                  /\ files' = files
                  /\ tasks'[t].st = "running"
            /\ Len(NextVideo(t).frames) > 0 =>
                  /\ DictHas(tasks'[t].ch.meta_dict, NextVideo(t).id)
                  /\ DictGet(tasks'[t].ch.meta_dict, NextVideo(t).id).meta_data
                        = <<NextVideo(t).meta>>
                  /\ Len(DictGet(tasks'[t].ch.meta_dict, NextVideo(t).id).frame_info) >= 1

\* C11: during ingestion an adapter item with zero frames is skipped: no
\* append is performed for it, the chunk's index gains no entry and no frame
\* info for it, the write cursor and the files are unchanged, and the worker
\* goes on with the rest of its range; an item with at least one frame is
\* appended.
C11_ZeroFramesSkipped == [][C11_Step]_vars

\* a worker completed a chunk of two items, the first without frames, the
\* second with frames, and the index holds the second only
C11_Witness ==
    \E t \in 1..Len(tasks) :
        /\ tasks[t].st = "done"
        /\ tasks[t].slice[2] - tasks[t].slice[1] = 2
        /\ Len(ingest.adapter[tasks[t].slice[1] + 1].frames) = 0
        /\ ~ingest.adapter[tasks[t].slice[1] + 1].raises
        /\ DictKeys(tasks[t].ch.meta_dict) = <<ingest.adapter[tasks[t].slice[1] + 2].id>>
        /\ Exists(files, tasks[t].ch.meta_file_path)
        /\ ItemsOfIndex(files[tasks[t].ch.meta_file_path])
              = {ingest.adapter[tasks[t].slice[1] + 2].id}

----------------------------------------------------------------------------
(* Claims about open while open and about iter_all.                        *)

C12_Step ==
    lastCall'.n = lastCall.n + 1 /\ lastCall'.opened /\ ~chunk.fp.closed =>
        /\ out' = "AlreadyOpen"
        /\ chunk'.fp = chunk.fp

\* C12: at most one of read mode and write mode is active per chunk object:
\* an open call made while the chunk is open (in either mode, the open that
\* iter_all performs included) is rejected with AlreadyOpen and leaves the
\* handle and its mode as they were.
C12_OpenWhileOpenRejected == [][C12_Step]_vars

C13_HeldOpen ==
    gen.alone /\ gen.state = "suspended" => ~chunk.fp.closed /\ chunk.fp.flag = "rb"
C13_Ends ==
    gen.alone /\ GenLive /\ gen'.state \in {"exhausted", "closed"} => chunk'.fp.closed

\* C13: the sequence iter_all produces holds the chunk open for read from
\* its first element until it ends, and the chunk's handle is closed when
\* the sequence is exhausted and when the consumer abandons it before that
\* (for a generator made on a chunk that is not open, and with no open call
\* or with-block exit on the chunk while the generator is in use).
C13_IterOpenThenClosed == []C13_HeldOpen /\ [][C13_Ends]_vars

----------------------------------------------------------------------------
(* Further claims about GulpDirectory.                                     *)

\* the location holds chunks 0..m-1 under the names _initialize_filenames
\* gives, for some m
SystemProduced(fs) == \E m \in 0..MaxSysChunks : fs = SysLocation(m)
\* every chunk id of the lookup is paired with the files that carry the id
PairedWithOwnFiles(objs) ==
    \A j \in 1..Len(objs) :
        /\ objs[j].v.data_file_path = DataPath(FormatInt(objs[j].k))
        /\ objs[j].v.meta_file_path = MetaPath(FormatInt(objs[j].k))
\* chunk_objs_lookup, which __init__ visits and chunks() yields in its order,
\* is in ascending order of chunk id
AscendingIds(objs) == \A j \in 1..(Len(objs) - 1) : objs[j].k < objs[j + 1].k

C14_Step ==
    Constructed /\ SystemProduced(files) =>
        /\ dstatus' = "ok"
        /\ dir'.num_chunks = Cardinality(IdsOfKind(files, "data"))
        /\ PairedWithOwnFiles(dir'.chunk_objs_lookup)
        /\ AscendingIds(dir'.chunk_objs_lookup)

\* C14: for every location whose chunk files this program produced (ids
\* 0..m-1 for any m, named by _initialize_filenames), GulpDirectory's
\* construction visits the chunks in ascending order of chunk id and chunks()
\* yields them in that order, each chunk id paired with the data file and
\* the index file that carry the id.
C14_ChunksAscending == [][C14_Step]_vars

----------------------------------------------------------------------------
(* Further claims about GulpChunk.append.                                  *)

\* the frames of a call before its first zero-length one
RECURSIVE FramesBeforeEmpty(_)
FramesBeforeEmpty(frames) ==
    IF frames = <<>> \/ Head(frames) = <<>> THEN <<>>
    ELSE <<Head(frames)>> \o FramesBeforeEmpty(Tail(frames))
\* the bytes the records of frames take
RECURSIVE RecordBytes(_)
RecordBytes(frames) ==
    IF frames = <<>> THEN 0
    ELSE Len(Head(frames)) + _pad_image(Len(Head(frames))) + RecordBytes(Tail(frames))
HasEmptyFrame(frames) == \E j \in 1..Len(frames) : frames[j] = <<>>
IsPrefix(a, b) == Len(a) <= Len(b) /\ SubSeq(b, 1, Len(a)) = a
\* the index entry of an item, empty for an item the index does not hold
EntryOf(ch, id_) ==
    IF DictHas(ch.meta_dict, id_) THEN DictGet(ch.meta_dict, id_) ELSE _default_factory

C15_Step ==
    \A c \in AppendCalls :
        CkAppend(c[1], c[2], c[3]) /\ HasEmptyFrame(c[3]) =>
            /\ out' = "AssertionError"
            /\ Len(EntryOf(chunk', c[1]).frame_info)
                  = Len(EntryOf(chunk, c[1]).frame_info) + Len(FramesBeforeEmpty(c[3]))
            /\ Len(files'[ChunkData])
                  = Len(files[ChunkData]) + RecordBytes(FramesBeforeEmpty(c[3]))
            /\ IsPrefix(files[ChunkData], files'[ChunkData])
            /\ chunk'.fp.pos = chunk.fp.pos + RecordBytes(FramesBeforeEmpty(c[3]))
            /\ \A i \in ChunkItemIds :
                  /\ IsPrefix(EntryOf(chunk, i).frame_info, EntryOf(chunk', i).frame_info)
                  /\ IsPrefix(EntryOf(chunk, i).meta_data, EntryOf(chunk', i).meta_data)
                  /\ i # c[1] => EntryOf(chunk', i) = EntryOf(chunk, i)
            /\ Exists(files, ChunkMeta) =>
                  Exists(files', ChunkMeta) /\ files'[ChunkMeta] = files[ChunkMeta]

\* C15: a zero-length payload offered during append fails the assertion of
\* _write_frame: for that frame no ImgInfo is recorded and no byte is
\* written, and nothing that earlier append calls recorded (frame infos,
\* metadata, bytes of the data file, the index file) is changed.
C15_EmptyPayloadRejected == [][C15_Step]_vars

\* an append whose second frame is empty failed after an earlier append of
\* item "a": "a" keeps its two frames, "b" has the one frame before the empty
C15_Witness ==
    /\ out = "AssertionError"
    /\ scope.active
    /\ Len(EntryOf(chunk, "a").frame_info) = 2
    /\ Len(EntryOf(chunk, "b").frame_info) = 1
    /\ Len(files[ChunkData]) = 12

\* the index holds one frame info per payload appended
InfosAgree ==
    \A i \in ChunkItemIds : Len(EntryOf(chunk, i).frame_info) = Len(appended[i].frames)
\* every frame info of the index was recorded in the write session now open
AllInSession ==
    /\ scope.active /\ scope.flag \in WriteFlags
    /\ Len(sessionLog) = Len(EntryOf(chunk, "a").frame_info)
                            + Len(EntryOf(chunk, "b").frame_info)

\* C16 as stated: every ImgInfo recorded by append stores loc, pad and the
\* number of raw payload bytes without the padding, so that the record takes
\* that number + pad bytes from loc on.
C16_LengthIsPayload ==
    undisturbed /\ InfosAgree =>
        \A i \in ChunkItemIds : \A j \in 1..Len(appended[i].frames) :
            /\ PadOf(EntryOf(chunk, i).frame_info[j]) = _pad_image(Len(appended[i].frames[j]))
            /\ LengthOf(EntryOf(chunk, i).frame_info[j]) = Len(appended[i].frames[j])

\* C16, amended: every ImgInfo recorded by append stores loc, pad and
\* length where loc is the position the record's write started at and
\* length is the number of bytes of the whole record, payload and padding:
\* length = payload bytes + pad, the record takes exactly length bytes from
\* loc on, and extract_frame reads length bytes and drops the last pad.
C16_LengthIsRecord ==
    undisturbed =>
        /\ InfosAgree
        /\ \A i \in ChunkItemIds : \A j \in 1..Len(appended[i].frames) :
              LET info    == EntryOf(chunk, i).frame_info[j]
                  payload == appended[i].frames[j]
              IN  /\ PadOf(info) = _pad_image(Len(payload))
                  /\ LengthOf(info) = Len(payload) + PadOf(info)
                  /\ AllInSession =>
                        /\ LocOf(info) + LengthOf(info) <= Len(files[ChunkData])
                        /\ ReadAt(files[ChunkData], LocOf(info), LengthOf(info))
                              = payload \o [k \in 1..PadOf(info) |-> 0]
                        /\ extract_frame(files[ChunkData], info) = payload

\* a write session has recorded a frame with two bytes of padding and a frame
\* with none
C16_Witness ==
    /\ undisturbed /\ AllInSession
    /\ EntryOf(chunk, "a").frame_info = <<ImgInfo(0, 2, 4), ImgInfo(4, 0, 4)>>
    /\ appended["a"].frames = << <<1, 0>>, <<0, 1, 1, 1>> >>

----------------------------------------------------------------------------
(* Further claims about an ingestion run.                                  *)

\* the files of the chunk of call t
PathsOfTask(t) == {tasks[t].ch.data_file_path, tasks[t].ch.meta_file_path}
\* the calls whose worker holds the data file open
WritersOf(q) ==
    {t \in 1..Len(tasks) : q \in PathsOfTask(t) /\ ~tasks[t].ch.fp.closed}
\* the files that existed before the run
ExistedBefore == DOMAIN SysLocation(ingest.next0)

C17_Paired ==
    /\ ipc # "call" /\ Len(ingest.adapter) > 0 =>
          Len(tasks) * ingest.per_chunk \in
              Len(ingest.adapter)..(Len(ingest.adapter) + ingest.per_chunk - 1)
    /\ \A t \in 1..Len(tasks) :
          /\ tasks[t].ch.data_file_path = DataPath(FormatInt(ingest.next0 + t - 1))
          /\ tasks[t].ch.meta_file_path = MetaPath(FormatInt(ingest.next0 + t - 1))
          /\ tasks[t].slice = <<(t - 1) * ingest.per_chunk,
                                Min(t * ingest.per_chunk, Len(ingest.adapter))>>
          /\ PathsOfTask(t) \cap ExistedBefore = {}
          /\ \A u \in 1..Len(tasks) : u # t => PathsOfTask(u) \cap PathsOfTask(t) = {}
    /\ \A q \in DOMAIN files : Cardinality(WritersOf(q)) <= 1

\* a file created or changed by a step did not exist before the run and is
\* a file of the chunk of exactly one call
C17_Step ==
    \A q \in DOMAIN files' :
        (q \notin DOMAIN files \/ files'[q] # files[q]) =>
            /\ q \notin ExistedBefore
            /\ Cardinality({t \in 1..Len(tasks) : q \in PathsOfTask(t)}) = 1

\* C17: within one ingestion run every allocated chunk is paired with
\* exactly one range and every range with exactly one chunk, so in every
\* interleaving of workers no chunk (data file or index file) is opened for
\* write by more than one worker, and no worker writes to a chunk that
\* existed before the run.
C17_OneWriterPerChunk == []C17_Paired /\ [][C17_Step]_vars

\* two workers hold their chunks open for write at the same time, at a
\* location that held a chunk before the run
C17_Witness ==
    /\ ingest.next0 = 1
    /\ Len(tasks) >= 2
    /\ Running = {1, 2}
    /\ ~tasks[1].ch.fp.closed /\ ~tasks[2].ch.fp.closed
    /\ Len(files[tasks[1].ch.data_file_path]) > 0
    /\ Len(files[tasks[2].ch.data_file_path]) > 0

----------------------------------------------------------------------------
(* SpecMerge: GulpDirectory's construction over locations whose index      *)
(* files hold items with frame infos and with one or two metadata entries  *)
(* (a metadata entry is a dict: here a record).                            *)

\* most chunks of a location of SpecMerge
MaxMergeChunks == 2

\* the index entry of an item as append left it: "a" was appended twice
\* (two metadata entries, two frames), "b" once without frames
AppendedEntry(id_) ==
    IF id_ = "a"
    THEN [frame_info |-> <<ImgInfo(0, 2, 4), ImgInfo(4, 0, 4)>>,
          meta_data |-> <<[label |-> 1], [label |-> 2]>>]
    ELSE [frame_info |-> <<>>, meta_data |-> <<[label |-> 3]>>]
\* the item ids of an index, in its order
MergeIndexChoices == {<<>>, <<"a">>, <<"b">>, <<"a", "b">>, <<"b", "a">>}
\* suffixes that make the item ids of chunk c its own, or leave them shared
\* with the other chunks
OwnId(id_, c, own) == IF own THEN <<id_, c>> ELSE <<id_>>

MergeIndex(items, c, own) ==
    json_dump([j \in 1..Len(items) |->
                  [k |-> OwnId(items[j], c, own), v |-> AppendedEntry(items[j])]])

MergeLocation(m, choice, own) ==
    [q \in {DataPath(FormatInt(c)) : c \in 0..(m - 1)}
           \cup {MetaPath(FormatInt(c)) : c \in 0..(m - 1)} |->
        IF q[1] = "data" THEN <<0, 0, 0, 0, 0, 0, 0, 0>>
        ELSE MergeIndex(choice[ParseInt(q[2])], ParseInt(q[2]), own)]

MergeLocations ==
    UNION {{MergeLocation(m, choice, own) :
               choice \in [0..(m - 1) -> MergeIndexChoices], own \in BOOLEAN} :
           m \in 0..MaxMergeChunks}

InitMerge ==
    /\ files \in MergeLocations
    /\ dir = NoDir
    /\ dstatus = "none"
    /\ alloc = NoAlloc
    /\ CodecIdle /\ RangesIdle /\ ChunkIdle /\ IngestIdle /\ IterIdle

NextMerge == DirConstruct

SpecMerge == InitMerge /\ [][NextMerge]_vars

\* the entries of the index files of the location: <<item id, entry>>
IndexEntries(fs) ==
    UNION {{<<json_load(fs[q])[j].k, json_load(fs[q])[j].v>> :
               j \in 1..Len(json_load(fs[q]))} : q \in MetaPathsOf(fs)}
MergedKeysExact ==
    /\ {dir.merged_meta_dict[j].k : j \in 1..Len(dir.merged_meta_dict)}
          = {e[1] : e \in IndexEntries(files)}
    /\ \A j, h \in 1..Len(dir.merged_meta_dict) :
          dir.merged_meta_dict[j].k = dir.merged_meta_dict[h].k => j = h

\* C18 as stated: after a successful construction merged_meta_dict has
\* exactly one key per item id found in any chunk, and the value of an item
\* id is the item's first metadata entry.
C18_MergedFirstMeta ==
    dstatus = "ok" =>
        /\ MergedKeysExact
        /\ \A e \in IndexEntries(files) :
              DictGet(dir.merged_meta_dict, e[1]) = e[2].meta_data[1]

\* C18, amended: after a successful construction merged_meta_dict has
\* exactly one key per item id found in any chunk, and the value of an item
\* id is the item's whole index entry: its frame infos and all of its
\* metadata entries.
C18_MergedWholeEntry ==
    dstatus = "ok" =>
        /\ MergedKeysExact
        /\ \A e \in IndexEntries(files) :
              /\ DictGet(dir.merged_meta_dict, e[1]) = e[2]
              /\ DictGet(dir.merged_meta_dict, e[1]).frame_info = e[2].frame_info
              /\ DictGet(dir.merged_meta_dict, e[1]).meta_data = e[2].meta_data

\* a directory was built over two chunks holding four items, two of them
\* with two frame infos and two metadata entries
C18_Witness ==
    /\ dstatus = "ok"
    /\ dir.num_chunks = 2
    /\ Len(dir.merged_meta_dict) = 4
    /\ \E j \in 1..Len(dir.merged_meta_dict) :
          /\ Len(dir.merged_meta_dict[j].v.meta_data) = 2
          /\ Len(dir.merged_meta_dict[j].v.frame_info) = 2

----------------------------------------------------------------------------
(* Consistency of a chunk's index file with its data file.                 *)

\* the frame infos of an index, each with its item and position:
\* <<item id, position, ImgInfo>>
SpansOf(index) ==
    UNION {{<<index[j].k, h, index[j].v.frame_info[h]>> :
               h \in 1..Len(index[j].v.frame_info)} : j \in 1..Len(index)}
SpansDisjoint(x, y) ==
    \/ LocOf(x[3]) + LengthOf(x[3]) <= LocOf(y[3])
    \/ LocOf(y[3]) + LengthOf(y[3]) <= LocOf(x[3])

\* C19: after any sequence of open-for-write sessions ('wb' or 'ab'),
\* appends and closes on a chunk, every frame info of the persisted index
\* describes a span of bytes [loc, loc + length) that lies inside the data
\* file, and the spans of distinct frame infos do not overlap (checked for
\* one chunk object whose with-blocks all ended without an exception).
C19_IndexMatchesData ==
    undisturbed /\ ~scope.active /\ scope.exit = "normal" /\ scope.flag \in WriteFlags
      /\ Exists(files, ChunkMeta) /\ Exists(files, ChunkData) =>
        LET spans == SpansOf(json_load(files[ChunkMeta]))
        IN  /\ \A x \in spans : LocOf(x[3]) + LengthOf(x[3]) <= Len(files[ChunkData])
            /\ \A x, y \in spans : x # y => SpansDisjoint(x, y)

----------------------------------------------------------------------------
(* The location after an ingestion run.                                    *)

\* C20: once an ingestion run has ended, whether it succeeded or a worker
\* failed part-way through its range, every data file at the location has an
\* index file with the same chunk id and every index file a data file, so
\* GulpDirectory's construction over the location does not fail on the chunk
\* ids and a further run can allocate new chunks.
C20_LocationUsableAfterRun ==
    ipc \in {"returned", "failed"} =>
        /\ IdSetsEqual(files)
        /\ GulpDirectoryInit(files).err \notin {"AssertionError: ids", "AssertionError: len"}
        /\ new_chunks(files, 1).err = "ok"
====
